---- MODULE Spec2Model ----
(***************************************************************************)
(* A model of ami_usage_interactive.py: one interactive run of main().     *)
(* The provider's answers (describe_images, describe_instances), what the  *)
(* user types, the interrupt and the I/O failures are the environment; the *)
(* helpers of the script are operators, the statements of main() and the   *)
(* loops of the print/export helpers are actions.                          *)
(***************************************************************************)
EXTENDS Integers, Sequences, FiniteSets, TLC

\* ------------------------------------------------------------------ bounds

\* Longest describe_images answer (images, over all pages).
MaxImages == 3
\* Longest describe_instances answer in the indexing specification.
MaxInstances == 2
\* Longest describe_instances answer in the report and run specifications.
MaxReportInstances == 2
\* How often the region prompt is answered with a blank line before a value.
MaxReprompts == 1

\* ------------------------------------------------------------------ strings

\* Python compares str values code point by code point; TLA+ strings are
\* atomic, so every string the model sorts or measures has its code points here.
CodePoints(s) ==
  CASE s = "" -> <<>>
    [] s = "-" -> <<45>>
    [] s = "2024-01-01" -> <<50, 48, 50, 52, 45, 48, 49, 45, 48, 49>>
    [] s = "2024-02-01" -> <<50, 48, 50, 52, 45, 48, 50, 45, 48, 49>>
    [] s = "ami-1" -> <<97, 109, 105, 45, 49>>
    [] s = "ami-2" -> <<97, 109, 105, 45, 50>>
    [] s = "ami-3" -> <<97, 109, 105, 45, 51>>
    [] s = "ami-4" -> <<97, 109, 105, 45, 52>>
    [] s = "ami-9" -> <<97, 109, 105, 45, 57>>
    [] s = "i-1" -> <<105, 45, 49>>
    [] s = "i-2" -> <<105, 45, 50>>
    [] s = "i-3" -> <<105, 45, 51>>
    [] s = "i-4" -> <<105, 45, 52>>
    [] s = "base" -> <<98, 97, 115, 101>>
    [] s = "web" -> <<119, 101, 98>>
    [] s = "app1" -> <<97, 112, 112, 49>>

\* a < b for two sequences of code points (Python's str.__lt__).
RECURSIVE LexLess(_, _)
LexLess(a, b) ==
  IF b = <<>> THEN FALSE
  ELSE IF a = <<>> THEN TRUE
  ELSE IF a[1] # b[1] THEN a[1] < b[1]
  ELSE LexLess(Tail(a), Tail(b))

StrLess(s, t) == LexLess(CodePoints(s), CodePoints(t))

StrLen(s) == Len(CodePoints(s))

\* ------------------------------------------------------------------ dicts

\* dict.get(key, default) on a response dict (a function on the keys it has).
Get(d, key, default) == IF key \in DOMAIN d THEN d[key] ELSE default

\* The value dict.get(key) gives for a key the dict does not have.
None == "<None>"

\* Python truthiness of an optional string: None and '' are falsy.
Truthy(v) == v # None /\ v # ""

\* `v or default`
Or(v, default) == IF Truthy(v) THEN v ELSE default

\* The items of all pages, in page order (for page in pages: for x in page).
RECURSIVE Flatten(_)
Flatten(ss) == IF ss = <<>> THEN <<>> ELSE Head(ss) \o Flatten(Tail(ss))

\* ------------------------------------------------------------------ fetch_owned_amis

\* One image of a describe_images page as the AmiInfo tuple (id, name, date).
AmiInfo(img) ==
  << Get(img, "ImageId", "-"),
     Or(Get(img, "Name", None), "-"),
     Or(Get(img, "CreationDate", None), "-") >>

\* list.sort(key=...) is stable: x goes after every element whose key is not
\* greater than its own.
RECURSIVE InsertByDate(_, _)
InsertByDate(x, sorted) ==
  IF sorted = <<>> THEN <<x>>
  ELSE IF StrLess(x[3], Head(sorted)[3]) THEN <<x>> \o sorted
  ELSE <<Head(sorted)>> \o InsertByDate(x, Tail(sorted))

RECURSIVE SortByDateFrom(_, _)
SortByDateFrom(images, sorted) ==
  IF images = <<>> THEN sorted
  ELSE SortByDateFrom(Tail(images), InsertByDate(Head(images), sorted))

\* images.sort(key=lambda x: x[2])
SortByDate(images) == SortByDateFrom(images, <<>>)

\* The images of all pages as AmiInfo tuples, in the order delivered.
CollectAmis(pages) ==
  LET imgs == Flatten(pages) IN [k \in 1..Len(imgs) |-> AmiInfo(imgs[k])]

fetch_owned_amis(pages) == SortByDate(CollectAmis(pages))

\* ------------------------------------------------------------------ fetch_instances

\* Variant: the exclusion set without 'shutting-down'.
excluded_states_terminated_only == {"terminated"}

\* excluded_states = {'terminated', 'shutting-down'}
excluded_states == {"terminated", "shutting-down"}

\* (inst.get('State') or {}).get('Name', '-')
StateName(inst) ==
  IF "State" \in DOMAIN inst THEN Get(inst["State"], "Name", "-") ELSE "-"

\* The value of the first tag with key 'Name' and a non-empty value, else '-'.
RECURSIVE NameTag(_)
NameTag(tags) ==
  IF tags = <<>> THEN "-"
  ELSE IF Get(Head(tags), "Key", None) = "Name" /\ Truthy(Get(Head(tags), "Value", None))
       THEN Head(tags)["Value"]
  ELSE NameTag(Tail(tags))

\* inst.get('Tags', []) or []
TagsOf(inst) == Get(inst, "Tags", <<>>)

\* The instance passes both `continue` tests of the loop body.
Qualifies(inst) ==
  /\ StateName(inst) \notin excluded_states
  /\ Truthy(Get(inst, "ImageId", None))

InstanceInfo(inst) ==
  << Get(inst, "InstanceId", "-"), NameTag(TagsOf(inst)), StateName(inst) >>

\* Variant: the instance is put in front of its image's list.
AppendUnderPrepends(mapping, image_id, info) ==
  IF image_id \in DOMAIN mapping
  THEN [mapping EXCEPT ![image_id] = <<info>> \o @]
  ELSE mapping @@ (image_id :> <<info>>)

\* mapping[image_id].append(info) on a defaultdict(list)
AppendUnder(mapping, image_id, info) ==
  IF image_id \in DOMAIN mapping
  THEN [mapping EXCEPT ![image_id] = Append(@, info)]
  ELSE mapping @@ (image_id :> <<info>>)

\* The body of the innermost loop for one instance.
IndexOne(mapping, inst) ==
  IF Qualifies(inst)
  THEN AppendUnder(mapping, inst["ImageId"], InstanceInfo(inst))
  ELSE mapping

RECURSIVE IndexAll(_, _)
IndexAll(mapping, insts) ==
  IF insts = <<>> THEN mapping
  ELSE IndexAll(IndexOne(mapping, Head(insts)), Tail(insts))

\* The empty defaultdict(list).
EmptyMapping == [k \in {} |-> <<>>]

\* pages: a sequence of pages, each a sequence of reservations, each a
\* sequence of instance dicts.
fetch_instances(pages) == IndexAll(EmptyMapping, Flatten(Flatten(pages)))

\* ------------------------------------------------------------------ compute_widths

ColumnMin1 == 22
ColumnMin2 == 40
ColumnMin3 == 24

Max(a, b) == IF a >= b THEN a ELSE b

RECURSIVE compute_widths(_, _)
compute_widths(rows, mins) ==
  IF rows = <<>> THEN mins
  ELSE compute_widths(Tail(rows),
         << Max(mins[1], StrLen(Head(rows)[1])),
            Max(mins[2], StrLen(Head(rows)[2])),
            Max(mins[3], StrLen(Head(rows)[3])) >>)

\* ------------------------------------------------------------------ print_used

\* `image_id in usage`: a membership test, which adds no key to the defaultdict.
InUsage(image_id, usage_) == image_id \in DOMAIN usage_

\* sorted(infos, key=lambda x: x[0]): stable, by instance id.
RECURSIVE InsertById(_, _)
InsertById(x, sorted) ==
  IF sorted = <<>> THEN <<x>>
  ELSE IF StrLess(x[1], Head(sorted)[1]) THEN <<x>> \o sorted
  ELSE <<Head(sorted)>> \o InsertById(x, Tail(sorted))

RECURSIVE SortByIdFrom(_, _)
SortByIdFrom(infos, sorted) ==
  IF infos = <<>> THEN sorted
  ELSE SortByIdFrom(Tail(infos), InsertById(Head(infos), sorted))

SortById(infos) == SortByIdFrom(infos, <<>>)

\* What one pass of print_used's loop body prints for one image.
UsedLinesFor(ami, usage_) ==
  IF InUsage(ami[1], usage_)
  THEN LET insts == SortById(usage_[ami[1]])
       IN <<<<"AMI", ami[1], ami[2], ami[3]>>>>
          \o [k \in 1..Len(insts) |-> <<"INST", insts[k][1], insts[k][2], insts[k][3]>>]
  ELSE <<>>

\* ------------------------------------------------------------------ print_unused

\* Variant: the filter `if i not in usage` is missing.
UnusedOfKeepsAll(amis_, usage_) == amis_

\* Variant: the unused images are listed newest first.
UnusedOfNewestFirst(amis_, usage_) ==
  LET NotInUsage(ami) == ~InUsage(ami[1], usage_)
      kept == SelectSeq(amis_, NotInUsage)
  IN [k \in 1..Len(kept) |-> kept[Len(kept) + 1 - k]]

\* [(i, n, d) for (i, n, d) in amis if i not in usage]
UnusedOf(amis_, usage_) ==
  LET NotInUsage(ami) == ~InUsage(ami[1], usage_)
  IN SelectSeq(amis_, NotInUsage)

\* ------------------------------------------------------------------ maybe_write_csv

CsvHeader ==
  <<"section", "ami_id", "ami_name", "creation_date", "instance_id", "instance_name", "state">>

\* Variant: a used image gets one row, for its first instance.
CsvRowsForFirstOnly(ami, usage_) ==
  IF InUsage(ami[1], usage_)
  THEN LET insts == usage_[ami[1]]
       IN <<<<"USED", ami[1], ami[2], ami[3], insts[1][1], insts[1][2], insts[1][3]>>>>
  ELSE <<<<"UNUSED", ami[1], ami[2], ami[3], "", "", "">>>>

\* The rows the loop body of maybe_write_csv writes for one image.
CsvRowsFor(ami, usage_) ==
  IF InUsage(ami[1], usage_)
  THEN LET insts == usage_[ami[1]]
       IN [k \in 1..Len(insts) |->
             <<"USED", ami[1], ami[2], ami[3], insts[k][1], insts[k][2], insts[k][3]>>]
  ELSE <<<<"UNUSED", ami[1], ami[2], ami[3], "", "", "">>>>

\* ------------------------------------------------------------------ the environment

\* The ways a paginator can deliver the items of s: consecutive non-empty chunks.
RECURSIVE Splits(_)
Splits(s) ==
  IF s = <<>> THEN {<<>>}
  ELSE UNION { { <<SubSeq(s, 1, k)>> \o rest : rest \in Splits(SubSeq(s, k + 1, Len(s))) }
               : k \in 1..Len(s) }

AmiIdOf == <<"ami-1", "ami-2", "ami-3", "ami-4">>
InstIdOf == <<"i-1", "i-2", "i-3", "i-4">>

\* A dict with the given key unless the value is None (the key is then absent).
Field(key, v) == IF v = None THEN <<>> ELSE (key :> v)

\* The Name the provider holds for each owned image: present, absent or empty.
ImageNameOf(id) ==
  CASE id = "ami-1" -> "base" [] id = "ami-2" -> "web" [] id = "ami-3" -> None [] OTHER -> ""

ImgDict(id, date) ==
  ("ImageId" :> id) @@ Field("Name", ImageNameOf(id)) @@ Field("CreationDate", date)

\* The Tags the provider holds for each instance: a Name tag behind another tag,
\* no Tags key ("i-2"), a Name tag with an empty value, an empty list.
InstanceHasTags(id) == id # "i-2"

InstanceTagsOf(id) ==
  CASE id = "i-1" -> <<[Key |-> "env", Value |-> "prod"], [Key |-> "Name", Value |-> "app1"]>>
    [] id = "i-3" -> <<[Key |-> "Name", Value |-> ""]>>
    [] OTHER -> <<>>

InstDict(id, image_id, state) ==
  ("InstanceId" :> id) @@ Field("ImageId", image_id)
    @@ (IF state = None THEN <<>> ELSE ("State" :> [Name |-> state]))
    @@ (IF InstanceHasTags(id) THEN ("Tags" :> InstanceTagsOf(id)) ELSE <<>>)

\* Instance ids are unique; the provider's order is not the order of the ids.
IdOrders(n) == { [k \in 1..n |-> InstIdOf[k]], [k \in 1..n |-> InstIdOf[n + 1 - k]] }

\* Flat describe_instances answers of at most n instances over the given
\* image ids and states.
InstanceLists(n, imageIds, states) ==
  UNION { { [k \in 1..m |-> InstDict(ids[k], f[k][1], f[k][2])]
            : ids \in IdOrders(m), f \in [1..m -> imageIds \X states] }
          : m \in 0..n }

\* Flat describe_images answers of at most n images with distinct ids.
ImageLists(n, dates) ==
  LET ids == { AmiIdOf[k] : k \in 1..n }
      Orders(m) == { f \in [1..m -> ids] : \A a, b \in 1..m : a # b => f[a] # f[b] }
  IN UNION { { [k \in 1..m |-> ImgDict(f[k], d[k])] : f \in Orders(m), d \in [1..m -> dates] }
             : m \in 0..n }

\* Every way to cut a flat answer into reservations and these into pages.
Paginations(l) == UNION { Splits(r) : r \in Splits(l) }

\* The whole answer as one reservation on one page.
OnePage(l) == { IF l = <<>> THEN <<>> ELSE << <<l>> >> }

\* The dates the provider holds for an image: none, or one of two days.
ImageDates == {None, "2024-01-01", "2024-02-01"}

\* The two images of the reference scenario, newest first; one image with an
\* empty date; no image.
ScenarioImages ==
  { <<ImgDict("ami-2", "2024-02-01"), ImgDict("ami-1", "2024-01-01")>>,
    <<ImgDict("ami-1", "")>>,
    <<>> }

\* What an instance may reference: no image, or an owned one.
IndexedImageIds == {None, "ami-1", "ami-2"}

\* The states an instance may report (None: no State key).
IndexedStates == {None, "running", "terminated", "shutting-down"}

\* Live instances of the owned images and of an image the caller does not own.
ReportImageIds == {"ami-1", "ami-2", "ami-9"}

\* The flat answers each specification draws from.
WideImageLists == ImageLists(MaxImages, ImageDates)
WideInstanceLists == InstanceLists(MaxInstances, IndexedImageIds, IndexedStates)
ReportInstanceLists == InstanceLists(MaxReportInstances, ReportImageIds, {"running"})

\* ------------------------------------------------------------------ state

VARIABLES
  pc,              \* the statement of main() (or of the helper it called) to run next
  region,          \* main's locals, as typed at the prompts
  profile,
  csv_path,
  reprompts,       \* blank answers given to the region prompt so far
  session,         \* the boto3 session, None before get_session
  amis,            \* fetch_owned_amis's result
  instance_pages,  \* what describe_instances answered in this run
  usage,           \* fetch_instances's result
  i,               \* position of the running loop in its list
  j,               \* rows of the current image already written (maybe_write_csv)
  any_used,        \* print_used's flag
  unused,          \* print_unused's list
  widths,          \* print_unused's column widths
  stdout,          \* lines printed so far
  stderr,
  file,            \* the export destination on disk
  fh,              \* the handle of `with open(...) as f`
  exit,            \* how the process ended, if it did
  calls            \* the helpers main() has called, in order

vars == << pc, region, profile, csv_path, reprompts, session, amis, instance_pages,
           usage, i, j, any_used, unused, widths, stdout, stderr, file, fh, exit, calls >>

locals == << region, profile, csv_path, reprompts, session, amis, instance_pages,
             usage, i, j, any_used, unused, widths >>

Running == [how |-> "running", code |-> 0, raised |-> "none", caught |-> FALSE]

\* The destination before the run: absent, or left by an earlier run.
AbsentFile == [exists |-> FALSE, rows |-> <<>>]
OldFile == [exists |-> TRUE, rows |-> <<CsvHeader, <<"UNUSED", "ami-9", "-", "-", "", "", "">>>>]

InitWith(files) ==
  /\ pc = "prompt_region"
  /\ region = None /\ profile = None /\ csv_path = None
  /\ reprompts = 0
  /\ session = None
  /\ amis = <<>>
  /\ instance_pages = <<>>
  /\ usage = EmptyMapping
  /\ i = 0 /\ j = 0
  /\ any_used = FALSE
  /\ unused = <<>>
  /\ widths = <<ColumnMin1, ColumnMin2, ColumnMin3>>
  /\ stdout = <<<<"=== AMI Usage Analysis (interactive) ===">>>>
  /\ stderr = <<>>
  /\ file \in files
  /\ fh = "none"
  /\ exit = Running
  /\ calls = <<>>

Init == InitWith({AbsentFile, OldFile})

InitAbsent == InitWith({AbsentFile})

\* ------------------------------------------------------------------ main

\* Variant: the export is called before the two print helpers.
MainStepsExportFirst ==
  << "get_session", "fetch_owned_amis", "fetch_instances",
     "maybe_write_csv", "print_used", "print_unused" >>

\* The helper calls of main()'s try block, in the order of its statements.
MainSteps ==
  << "get_session", "fetch_owned_amis", "fetch_instances",
     "print_used", "print_unused", "maybe_write_csv" >>

\* Where main() continues when the helper `step` has returned.
AfterCall(step) ==
  LET k == CHOOSE n \in 1..Len(MainSteps) : MainSteps[n] = step
  IN IF k < Len(MainSteps) THEN MainSteps[k + 1] ELSE "main_return"

\* ------------------------------------------------------------------ the prompts

\* input(...).strip() on what the user typed
Strip(typed) == IF typed = " " THEN "" ELSE typed

\* region = prompt_nonempty(...): a blank answer is asked again.
PromptRegion(answers) ==
  /\ pc = "prompt_region"
  /\ \E typed \in answers :
       LET val == Strip(typed) IN
       IF Truthy(val)
       THEN /\ region' = val
            /\ pc' = "prompt_profile"
            /\ UNCHANGED << reprompts, stdout >>
       ELSE /\ reprompts < MaxReprompts
            /\ reprompts' = reprompts + 1
            /\ stdout' = Append(stdout, <<"Please enter a value.">>)
            /\ UNCHANGED << region, pc >>
  /\ UNCHANGED << profile, csv_path, session, amis, instance_pages, usage, i, j,
                  any_used, unused, widths, stderr, file, fh, exit, calls >>

\* profile = input(...).strip() or None
PromptProfile(answers) ==
  /\ pc = "prompt_profile"
  /\ \E typed \in answers : profile' = Or(Strip(typed), None)
  /\ pc' = "prompt_csv"
  /\ UNCHANGED << region, csv_path, reprompts, session, amis, instance_pages, usage, i, j,
                  any_used, unused, widths, stdout, stderr, file, fh, exit, calls >>

\* csv_path = input(...).strip() or None
PromptCsv(answers) ==
  /\ pc = "prompt_csv"
  /\ \E typed \in answers : csv_path' = Or(Strip(typed), None)
  /\ pc' = MainSteps[1]
  /\ UNCHANGED << region, profile, reprompts, session, amis, instance_pages, usage, i, j,
                  any_used, unused, widths, stdout, stderr, file, fh, exit, calls >>

\* ------------------------------------------------------------------ the fetches

get_session(profile_, region_) ==
  IF Truthy(profile_)
  THEN [profile_name |-> profile_, region_name |-> region_]
  ELSE [profile_name |-> "default", region_name |-> region_]

GetSession ==
  /\ pc = "get_session"
  /\ session' = get_session(profile, region)
  /\ calls' = Append(calls, "get_session")
  /\ pc' = AfterCall("get_session")
  /\ UNCHANGED << region, profile, csv_path, reprompts, amis, instance_pages, usage, i, j,
                  any_used, unused, widths, stdout, stderr, file, fh, exit >>

FetchOwnedAmis(lists) ==
  /\ pc = "fetch_owned_amis"
  /\ \E l \in lists : \E pages \in Splits(l) : amis' = fetch_owned_amis(pages)
  /\ calls' = Append(calls, "fetch_owned_amis")
  /\ pc' = AfterCall("fetch_owned_amis")
  /\ UNCHANGED << region, profile, csv_path, reprompts, session, instance_pages, usage, i, j,
                  any_used, unused, widths, stdout, stderr, file, fh, exit >>

FetchInstances(lists, everyPagination) ==
  /\ pc = "fetch_instances"
  /\ \E l \in lists : \E pages \in (IF everyPagination THEN Paginations(l) ELSE OnePage(l)) :
       /\ instance_pages' = pages
       /\ usage' = fetch_instances(pages)
  /\ calls' = Append(calls, "fetch_instances")
  /\ pc' = AfterCall("fetch_instances")
  /\ UNCHANGED << region, profile, csv_path, reprompts, session, amis, i, j,
                  any_used, unused, widths, stdout, stderr, file, fh, exit >>

\* ------------------------------------------------------------------ print_used

\* main() prints the region banner and calls print_used, which prints its title.
PrintUsedBegin ==
  /\ pc = "print_used"
  /\ stdout' = stdout \o << <<"=== AMI Usage Analysis (region) ===", region>>,
                            <<"1. USED AMIs (with instances):">>,
                            <<"================================">> >>
  /\ any_used' = FALSE
  /\ i' = 1
  /\ calls' = Append(calls, "print_used")
  /\ pc' = "print_used_loop"
  /\ UNCHANGED << region, profile, csv_path, reprompts, session, amis, instance_pages,
                  usage, j, unused, widths, stderr, file, fh, exit >>

\* One pass of `for image_id, name, date in amis`.
PrintUsedStep ==
  /\ pc = "print_used_loop"
  /\ i <= Len(amis)
  /\ stdout' = stdout \o UsedLinesFor(amis[i], usage)
  /\ any_used' = (any_used \/ InUsage(amis[i][1], usage))
  /\ i' = i + 1
  /\ UNCHANGED << pc, region, profile, csv_path, reprompts, session, amis, instance_pages,
                  usage, j, unused, widths, stderr, file, fh, exit, calls >>

\* After the loop: `if not any_used: print("(none)")`, and print_used returns.
PrintUsedEnd ==
  /\ pc = "print_used_loop"
  /\ i > Len(amis)
  /\ stdout' = IF any_used THEN stdout ELSE Append(stdout, <<"(none)">>)
  /\ pc' = AfterCall("print_used")
  /\ UNCHANGED << region, profile, csv_path, reprompts, session, amis, instance_pages,
                  usage, i, j, any_used, unused, widths, stderr, file, fh, exit, calls >>

\* ------------------------------------------------------------------ print_unused

\* The title, the list, and either "(none)" and return or the table's head.
PrintUnusedBegin ==
  /\ pc = "print_unused"
  /\ unused' = UnusedOf(amis, usage)
  /\ calls' = Append(calls, "print_unused")
  /\ IF unused' = <<>>
     THEN /\ stdout' = stdout \o << <<"2. UNUSED AMIs (no instances):">>,
                                    <<"================================">>,
                                    <<"(none)">> >>
          /\ pc' = AfterCall("print_unused")
          /\ UNCHANGED << widths, i >>
     ELSE /\ widths' = compute_widths(unused', <<ColumnMin1, ColumnMin2, ColumnMin3>>)
          /\ stdout' = stdout \o << <<"2. UNUSED AMIs (no instances):">>,
                                    <<"================================">>,
                                    <<"AMI ID", "AMI Name", "Creation Date">>,
                                    <<"-">> >>
          /\ i' = 1
          /\ pc' = "print_unused_loop"
  /\ UNCHANGED << region, profile, csv_path, reprompts, session, amis, instance_pages,
                  usage, j, any_used, stderr, file, fh, exit >>

\* One pass of `for i, n, d in unused`; print_unused returns after the last.
PrintUnusedStep ==
  /\ pc = "print_unused_loop"
  /\ i <= Len(unused)
  /\ stdout' = Append(stdout, <<"ROW", unused[i][1], unused[i][2], unused[i][3]>>)
  /\ i' = i + 1
  /\ pc' = IF i = Len(unused) THEN AfterCall("print_unused") ELSE pc
  /\ UNCHANGED << region, profile, csv_path, reprompts, session, amis, instance_pages,
                  usage, j, any_used, unused, widths, stderr, file, fh, exit, calls >>

\* ------------------------------------------------------------------ maybe_write_csv

\* `if not path: return`, else open(path, "w"), which creates or truncates.
MaybeWriteCsv ==
  /\ pc = "maybe_write_csv"
  /\ calls' = Append(calls, "maybe_write_csv")
  /\ IF Truthy(csv_path)
     THEN /\ file' = [exists |-> TRUE, rows |-> <<>>]
          /\ fh' = "open"
          /\ pc' = "csv_header"
     ELSE /\ pc' = AfterCall("maybe_write_csv")
          /\ UNCHANGED << file, fh >>
  /\ UNCHANGED << region, profile, csv_path, reprompts, session, amis, instance_pages,
                  usage, i, j, any_used, unused, widths, stdout, stderr, exit >>

\* writer.writerow([...header...])
CsvWriteHeader ==
  /\ pc = "csv_header"
  /\ file' = [file EXCEPT !.rows = Append(@, CsvHeader)]
  /\ i' = 1
  /\ j' = 0
  /\ pc' = "csv_loop"
  /\ UNCHANGED << region, profile, csv_path, reprompts, session, amis, instance_pages,
                  usage, any_used, unused, widths, stdout, stderr, fh, exit, calls >>

\* One writer.writerow of the loop over amis (and over usage[image_id]).
CsvWriteRow ==
  /\ pc = "csv_loop"
  /\ i <= Len(amis)
  /\ LET rows == CsvRowsFor(amis[i], usage) IN
       IF j < Len(rows)
       THEN /\ file' = [file EXCEPT !.rows = Append(@, rows[j + 1])]
            /\ IF j + 1 = Len(rows)
               THEN i' = i + 1 /\ j' = 0
               ELSE i' = i /\ j' = j + 1
       ELSE /\ i' = i + 1
            /\ j' = 0
            /\ UNCHANGED file
  /\ UNCHANGED << pc, region, profile, csv_path, reprompts, session, amis, instance_pages,
                  usage, any_used, unused, widths, stdout, stderr, fh, exit, calls >>

\* The with block ends (the file is flushed and closed), the confirmation is
\* printed and maybe_write_csv returns.
CsvClose ==
  /\ pc = "csv_loop"
  /\ i > Len(amis)
  /\ fh' = "closed"
  /\ stdout' = Append(stdout, <<"CSV written to:", csv_path>>)
  /\ pc' = AfterCall("maybe_write_csv")
  /\ UNCHANGED << region, profile, csv_path, reprompts, session, amis, instance_pages,
                  usage, i, j, any_used, unused, widths, stderr, file, exit, calls >>

\* ------------------------------------------------------------------ how main() ends

\* main() returns and the interpreter exits with status 0.
MainReturn ==
  /\ pc = "main_return"
  /\ exit' = [how |-> "return", code |-> 0, raised |-> "none", caught |-> FALSE]
  /\ pc' = "exited"
  /\ UNCHANGED << locals, stdout, stderr, file, fh, calls >>

\* The statements inside main()'s try block.
InTry ==
  { "get_session", "fetch_owned_amis", "fetch_instances", "print_used", "print_used_loop",
    "print_unused", "print_unused_loop", "maybe_write_csv", "csv_header", "csv_loop" }

\* The helpers that talk to the provider.
ProviderCalls == { "get_session", "fetch_owned_amis", "fetch_instances" }

\* `with` releases the handle when an exception leaves the block.
ReleasedHandle == IF fh = "open" THEN "closed" ELSE fh

\* Variant: the handler starts the try block again.
ProviderErrorRetried ==
  [pc |-> "get_session", exit |-> Running]

\* except (BotoCoreError, ClientError): message on stderr, sys.exit(2).
ProviderErrorHandled ==
  [pc |-> "exited",
   exit |-> [how |-> "sys.exit", code |-> 2, raised |-> "ClientError", caught |-> TRUE]]

\* A provider call raises BotoCoreError or ClientError.
ProviderError ==
  /\ pc \in ProviderCalls
  /\ calls' = Append(calls, pc)
  /\ stderr' = Append(stderr, <<"AWS error:">>)
  /\ pc' = ProviderErrorHandled.pc
  /\ exit' = ProviderErrorHandled.exit
  /\ UNCHANGED << locals, stdout, file, fh >>

\* except KeyboardInterrupt: message on stderr, sys.exit(130).
InterruptHandled ==
  [how |-> "sys.exit", code |-> 130, raised |-> "KeyboardInterrupt", caught |-> TRUE]

\* KeyboardInterrupt outside the try block: no handler, the interpreter prints
\* the traceback and ends the process with SIGINT (code: minus the signal number).
InterruptUnhandled ==
  [how |-> "signal", code |-> -2, raised |-> "KeyboardInterrupt", caught |-> FALSE]

\* The user interrupts the run (Ctrl-C) at the current statement.
Interrupt ==
  /\ pc # "exited" /\ pc # "main_return"
  /\ IF pc \in InTry
     THEN /\ exit' = InterruptHandled
          /\ stderr' = Append(stderr, <<"Interrupted.">>)
     ELSE /\ exit' = InterruptUnhandled
          /\ stderr' = Append(stderr, <<"Traceback", "KeyboardInterrupt">>)
  /\ fh' = ReleasedHandle
  /\ pc' = "exited"
  /\ UNCHANGED << locals, stdout, file, calls >>

\* Variant: main() catches the OSError and returns normally.
OSErrorSwallowed ==
  [how |-> "return", code |-> 0, raised |-> "OSError", caught |-> TRUE]

\* OSError is named by no except clause of main(): the traceback is printed
\* and the interpreter exits with status 1.
OSErrorUnhandled ==
  [how |-> "traceback", code |-> 1, raised |-> "OSError", caught |-> FALSE]

\* open() fails: nothing is created or truncated, no handle exists.
CsvOpenFails ==
  /\ pc = "maybe_write_csv"
  /\ Truthy(csv_path)
  /\ calls' = Append(calls, "maybe_write_csv")
  /\ exit' = OSErrorUnhandled
  /\ stderr' = Append(stderr, <<"Traceback", "OSError">>)
  /\ pc' = "exited"
  /\ UNCHANGED << locals, stdout, file, fh >>

\* A writerow fails: the row is not written, `with` closes the file.
CsvWriteFails ==
  /\ pc \in {"csv_header", "csv_loop"}
  /\ pc = "csv_loop" => i <= Len(amis)
  /\ exit' = OSErrorUnhandled
  /\ stderr' = Append(stderr, <<"Traceback", "OSError">>)
  /\ fh' = ReleasedHandle
  /\ pc' = "exited"
  /\ UNCHANGED << locals, stdout, file, calls >>

\* ------------------------------------------------------------------ specifications

\* What the user may type at the three prompts.
RegionAnswers == {" ", "eu-west-1"}
ProfileAnswers == {"", "dev"}
CsvAnswers == {"", " ", "out.csv"}

\* The run with every fault, over the reference scenario's answers.
Next ==
  \/ PromptRegion(RegionAnswers)
  \/ PromptProfile(ProfileAnswers)
  \/ PromptCsv(CsvAnswers)
  \/ GetSession
  \/ FetchOwnedAmis(ScenarioImages)
  \/ FetchInstances(ReportInstanceLists, FALSE)
  \/ PrintUsedBegin
  \/ PrintUsedStep
  \/ PrintUsedEnd
  \/ PrintUnusedBegin
  \/ PrintUnusedStep
  \/ MaybeWriteCsv
  \/ CsvWriteHeader
  \/ CsvWriteRow
  \/ CsvClose
  \/ MainReturn
  \/ ProviderError
  \/ Interrupt
  \/ CsvOpenFails
  \/ CsvWriteFails

Spec == Init /\ [][Next]_vars

\* The run of a user who asks for no export, over every describe_instances
\* answer: the specification of the claims about the usage index.
NextIndex ==
  \/ PromptRegion({"eu-west-1"})
  \/ PromptProfile({""})
  \/ PromptCsv({""})
  \/ GetSession
  \/ FetchOwnedAmis({ <<ImgDict("ami-2", "2024-02-01"), ImgDict("ami-1", "2024-01-01")>> })
  \/ FetchInstances(WideInstanceLists, TRUE)
  \/ PrintUsedBegin
  \/ PrintUsedStep
  \/ PrintUsedEnd
  \/ PrintUnusedBegin
  \/ PrintUnusedStep
  \/ MaybeWriteCsv
  \/ MainReturn
  \/ ProviderError
  \/ Interrupt

SpecIndex == InitAbsent /\ [][NextIndex]_vars

\* The run that no fault ends, over every describe_images answer, with and
\* without export: the specification of the claims about the finished report.
NextReport ==
  \/ PromptRegion({"eu-west-1"})
  \/ PromptProfile({""})
  \/ PromptCsv({"", "out.csv"})
  \/ GetSession
  \/ FetchOwnedAmis(WideImageLists)
  \/ FetchInstances(ReportInstanceLists, FALSE)
  \/ PrintUsedBegin
  \/ PrintUsedStep
  \/ PrintUsedEnd
  \/ PrintUnusedBegin
  \/ PrintUnusedStep
  \/ MaybeWriteCsv
  \/ CsvWriteHeader
  \/ CsvWriteRow
  \/ CsvClose
  \/ MainReturn

SpecReport == InitAbsent /\ [][NextReport]_vars

\* ------------------------------------------------------------------ what was reported

Range(seq) == { seq[k] : k \in DOMAIN seq }

NoDuplicates(seq) == \A a, b \in DOMAIN seq : a # b => seq[a] # seq[b]

\* The second field of the lines (or rows) whose first field is `tag`.
IdsTagged(lines, tag) ==
  LET IsTagged(l) == l[1] = tag
      hits == SelectSeq(lines, IsTagged)
  IN [k \in 1..Len(hits) |-> hits[k][2]]

\* The image ids of the AMI headers of the used section, in print order.
ConsoleUsedIds == IdsTagged(stdout, "AMI")
\* The image ids of the rows of the unused table, in print order.
ConsoleUnusedIds == IdsTagged(stdout, "ROW")
\* The image ids of the export's rows of each section, in file order.
CsvUsedIds == IdsTagged(file.rows, "USED")
CsvUnusedIds == IdsTagged(file.rows, "UNUSED")

\* The ids of the owned-image list, in list order.
OwnedIds == [k \in 1..Len(amis) |-> amis[k][1]]

\* print_unused has returned and the process has not ended.
ConsoleDone == pc \in {"maybe_write_csv", "csv_header", "csv_loop", "main_return"}

\* maybe_write_csv has written and closed the file and the process has not ended.
ExportDone == pc = "main_return" /\ fh = "closed"

\* seq without the repetitions of an element right after itself.
RECURSIVE Squeeze(_)
Squeeze(seq) ==
  IF Len(seq) <= 1 THEN seq
  ELSE IF seq[1] = seq[2] THEN Squeeze(Tail(seq))
  ELSE <<seq[1]>> \o Squeeze(Tail(seq))

\* The elements of seq that are in S, in the order of seq.
Restrict(seq, S) == LET In(x) == x \in S IN SelectSeq(seq, In)

\* The instance dicts of the describe_instances answer in delivery order.
Delivered == Flatten(Flatten(instance_pages))

\* ------------------------------------------------------------------ claims

\* C1: the images reported as used and those reported as unused are disjoint,
\* together they are exactly the owned images, none is reported twice, and no
\* id from outside the owned list is reported, while the sections are being
\* written or after, on the console and in the export.
C1_PartitionTotality ==
  /\ pc \in {"print_used_loop", "print_unused", "print_unused_loop"} =>
       Range(ConsoleUsedIds) \cup Range(ConsoleUnusedIds) \subseteq Range(OwnedIds)
  /\ fh = "open" =>
       Range(CsvUsedIds) \cup Range(CsvUnusedIds) \subseteq Range(OwnedIds)
  /\ ConsoleDone =>
       /\ Range(ConsoleUsedIds) \cap Range(ConsoleUnusedIds) = {}
       /\ Range(ConsoleUsedIds) \cup Range(ConsoleUnusedIds) = Range(OwnedIds)
       /\ NoDuplicates(ConsoleUsedIds) /\ NoDuplicates(ConsoleUnusedIds)
  /\ ExportDone =>
       /\ Range(CsvUsedIds) \cap Range(CsvUnusedIds) = {}
       /\ Range(CsvUsedIds) \cup Range(CsvUnusedIds) = Range(OwnedIds)
       /\ NoDuplicates(CsvUnusedIds)
       /\ Range(CsvUsedIds) = Range(ConsoleUsedIds)

\* C1 witness: a finished export with a used image, an unused image and an
\* instance of an image that is not owned.
C1_Witness ==
  /\ ExportDone
  /\ ConsoleUsedIds # <<>> /\ ConsoleUnusedIds # <<>>
  /\ "ami-9" \in DOMAIN usage

\* The state the provider reported for an instance of the answer, if any.
ReportedState(inst) ==
  IF "State" \in DOMAIN inst /\ "Name" \in DOMAIN inst["State"]
  THEN inst["State"]["Name"] ELSE None

\* The image the provider reported for an instance of the answer, if any.
ReportedImage(inst) == IF "ImageId" \in DOMAIN inst THEN inst["ImageId"] ELSE None

\* The instance ids held anywhere in the usage index.
IndexedInstanceIds ==
  UNION { { usage[key][k][1] : k \in DOMAIN usage[key] } : key \in DOMAIN usage }

\* The delivered instance is terminated or shutting down.
IsGone(inst) == ReportedState(inst) \in {"terminated", "shutting-down"}

\* C2: no instance whose state is terminated or shutting-down is in any entry
\* of the usage index, whatever its image id, instance id and tags; an owned
\* image that only such instances reference is printed in the unused table and
\* not in the used section.
C2_ExclusionCorrectness ==
  /\ \A k \in DOMAIN Delivered :
       IsGone(Delivered[k]) => Delivered[k]["InstanceId"] \notin IndexedInstanceIds
  /\ \A key \in DOMAIN usage : \A k \in DOMAIN usage[key] :
       usage[key][k][3] \notin {"terminated", "shutting-down"}
  /\ ConsoleDone =>
       \A id \in Range(OwnedIds) :
         (\A k \in DOMAIN Delivered :
            ReportedImage(Delivered[k]) = id => IsGone(Delivered[k]))
         => id \in Range(ConsoleUnusedIds) /\ id \notin Range(ConsoleUsedIds)

\* C2 witness: ami-1 is referenced by a terminated and by a shutting-down
\* instance only, one of them carrying a Name tag, and was printed as unused.
C2_Witness ==
  /\ ConsoleDone
  /\ Len(Delivered) = 2
  /\ \A k \in DOMAIN Delivered : ReportedImage(Delivered[k]) = "ami-1"
  /\ { ReportedState(Delivered[k]) : k \in DOMAIN Delivered } = {"terminated", "shutting-down"}
  /\ "ami-1" \in Range(ConsoleUnusedIds)

\* The delivered instances that have a state outside the exclusion set and a
\* non-empty image id, in delivery order.
QualifyingDelivered ==
  LET Ok(inst) == ~IsGone(inst) /\ ReportedImage(inst) \notin {None, ""}
  IN SelectSeq(Delivered, Ok)

\* The ids of the qualifying instances that reference image `key`, in delivery order.
QualifyingIdsOf(key) ==
  LET Refs(inst) == ReportedImage(inst) = key
      hits == SelectSeq(QualifyingDelivered, Refs)
  IN [k \in 1..Len(hits) |-> hits[k]["InstanceId"]]

\* C3: the usage index is the group-by of the qualifying instances: its keys
\* are the image ids they reference, every entry is non-empty and lists the
\* qualifying instances of its image once each in delivery order, with the
\* state delivered; an instance without an image id is under no key.
C3_IndexIsGroupBy ==
  /\ DOMAIN usage = { ReportedImage(QualifyingDelivered[k]) : k \in DOMAIN QualifyingDelivered }
  /\ \A key \in DOMAIN usage :
       /\ usage[key] # <<>>
       /\ [k \in 1..Len(usage[key]) |-> usage[key][k][1]] = QualifyingIdsOf(key)
  /\ \A k \in DOMAIN Delivered :
       ReportedImage(Delivered[k]) = None
         => Delivered[k]["InstanceId"] \notin IndexedInstanceIds
  /\ \A k \in DOMAIN Delivered :
       LET inst == Delivered[k] IN
       inst["InstanceId"] \in IndexedInstanceIds =>
         \E n \in DOMAIN usage[ReportedImage(inst)] :
           /\ usage[ReportedImage(inst)][n][1] = inst["InstanceId"]
           /\ usage[ReportedImage(inst)][n][3] =
                (IF ReportedState(inst) = None THEN "-" ELSE ReportedState(inst))

\* C3 witness: two qualifying instances of one image delivered on two pages
\* with the greater id first and kept in that order.
C3_Witness ==
  /\ Len(instance_pages) = 2
  /\ "ami-1" \in DOMAIN usage
  /\ Len(usage["ami-1"]) = 2
  /\ usage["ami-1"][1][1] = "i-2" /\ usage["ami-1"][2][1] = "i-1"

\* The owned ids that are keys of the usage index, and those that are not.
UsedOwned == Range(OwnedIds) \cap DOMAIN usage
UnusedOwned == Range(OwnedIds) \ DOMAIN usage

\* C4: the owned-image list, when fetch_owned_amis returns it and when the
\* export is finished, is in ascending order of creation date, '-' standing
\* for a missing date; the used images and the unused images are each emitted
\* in the order they have in that list, on the console and in the export.
C4_OrderPreserved ==
  /\ (pc = "fetch_instances" \/ ExportDone) =>
       /\ \A k \in 1..(Len(amis) - 1) : ~StrLess(amis[k + 1][3], amis[k][3])
       /\ \A k \in DOMAIN amis : amis[k][3] \notin {None, ""}
  /\ ConsoleDone =>
       /\ ConsoleUsedIds = Restrict(OwnedIds, UsedOwned)
       /\ ConsoleUnusedIds = Restrict(OwnedIds, UnusedOwned)
  /\ ExportDone =>
       /\ Squeeze(CsvUsedIds) = Restrict(OwnedIds, UsedOwned)
       /\ CsvUnusedIds = Restrict(OwnedIds, UnusedOwned)
       /\ Squeeze([k \in 1..(Len(file.rows) - 1) |-> file.rows[k + 1][2]]) = OwnedIds

\* C4 witness: three images, the first without a date; the first and the last
\* are used, their ids are not in id order, and the export is finished.
C4_Witness ==
  /\ ExportDone
  /\ OwnedIds = <<"ami-2", "ami-3", "ami-1">>
  /\ amis[1][3] = "-" /\ amis[2][3] = "2024-01-01" /\ amis[3][3] = "2024-01-01"
  /\ ConsoleUsedIds = <<"ami-2", "ami-1">>
  /\ ConsoleUnusedIds = <<"ami-3">>

\* The number of rows of the export equal to `row`.
CountRows(row) == Cardinality({ k \in DOMAIN file.rows : file.rows[k] = row })

\* Sum over the first k owned images: the instances of a used one, 1 for an unused one.
RECURSIVE ExpectedDataRows(_)
ExpectedDataRows(k) ==
  IF k = 0 THEN 0
  ELSE ExpectedDataRows(k - 1)
       + (IF amis[k][1] \in DOMAIN usage THEN Len(usage[amis[k][1]]) ELSE 1)

\* C5: a finished export holds the header row, then one USED row per instance
\* of every used image and one UNUSED row with empty instance fields per
\* unused image, and nothing else; with a blank path no file is opened or
\* written.
C5_ExportRows ==
  /\ ExportDone =>
       /\ Truthy(csv_path)
       /\ file.exists
       /\ file.rows[1] = CsvHeader
       /\ Len(file.rows) = 1 + ExpectedDataRows(Len(amis))
       /\ \A k \in DOMAIN amis :
            LET a == amis[k] IN
            IF a[1] \in DOMAIN usage
            THEN /\ \A n \in DOMAIN usage[a[1]] :
                      LET u == usage[a[1]][n]
                      IN CountRows(<<"USED", a[1], a[2], a[3], u[1], u[2], u[3]>>) = 1
                 /\ a[1] \notin Range(CsvUnusedIds)
            ELSE /\ CountRows(<<"UNUSED", a[1], a[2], a[3], "", "", "">>) = 1
                 /\ a[1] \notin Range(CsvUsedIds)
       /\ stdout[Len(stdout)] = <<"CSV written to:", csv_path>>
  /\ ~Truthy(csv_path) => fh = "none" /\ file = AbsentFile

\* C5 witness: one used image with one instance and one unused image give a
\* header and exactly two data rows.
C5_Witness ==
  /\ ExportDone
  /\ Len(amis) = 2
  /\ Cardinality(UsedOwned) = 1
  /\ \A id \in UsedOwned : Len(usage[id]) = 1
  /\ Len(file.rows) = 3

\* ------------------------------------------------------------------ the console in full

\* What print_used prints for the whole list, title included.
UsedSection ==
  << <<"1. USED AMIs (with instances):">>, <<"================================">> >>
  \o Flatten([k \in 1..Len(amis) |-> UsedLinesFor(amis[k], usage)])
  \o (IF UsedOwned = {} THEN <<<<"(none)">>>> ELSE <<>>)

\* What print_unused prints for the whole list, title included.
UnusedSection ==
  LET rows == Restrict(amis, { amis[k] : k \in { n \in DOMAIN amis : amis[n][1] \notin DOMAIN usage } })
  IN << <<"2. UNUSED AMIs (no instances):">>, <<"================================">> >>
     \o (IF rows = <<>> THEN <<<<"(none)">>>>
         ELSE << <<"AMI ID", "AMI Name", "Creation Date">>, <<"-">> >>
              \o [k \in 1..Len(rows) |-> <<"ROW", rows[k][1], rows[k][2], rows[k][3]>>])

\* Everything main() prints up to the return of print_unused.
FullConsole ==
  <<<<"=== AMI Usage Analysis (interactive) ===">>>>
  \o [k \in 1..reprompts |-> <<"Please enter a value.">>]
  \o <<<<"=== AMI Usage Analysis (region) ===", region>>>>
  \o UsedSection \o UnusedSection

\* Both sections are on the console in full.
BothSectionsPrinted ==
  /\ Len(stdout) >= Len(FullConsole)
  /\ SubSeq(stdout, 1, Len(FullConsole)) = FullConsole

IsPrefix(s, t) == Len(s) <= Len(t) /\ SubSeq(t, 1, Len(s)) = s

\* How often `step` is in the call log.
TimesCalled(step) == Cardinality({ k \in DOMAIN calls : calls[k] = step })

\* The export of the whole report: the header and every image's rows.
FullReport == <<CsvHeader>> \o Flatten([k \in 1..Len(amis) |-> CsvRowsFor(amis[k], usage)])

\* C6 (as claimed): an interrupt delivered at any point of the run is caught
\* at the top level and the process exits with code 130.
C6_InterruptCaughtExit130 ==
  exit.raised = "KeyboardInterrupt" =>
    exit.caught /\ exit.how = "sys.exit" /\ exit.code = 130

\* C7 (as claimed): no run that an interrupt ended leaves the export file,
\* opened and truncated by that run, with only a proper prefix of the report.
C7_NoHalfWrittenExport ==
  (pc = "exited" /\ exit.raised = "KeyboardInterrupt" /\ fh = "closed") =>
    ~(Len(file.rows) < Len(FullReport) /\ IsPrefix(file.rows, FullReport))

\* The state part of C8.
C8_OrderKept ==
  /\ IsPrefix(calls, << "get_session", "fetch_owned_amis", "fetch_instances",
                        "print_used", "print_unused", "maybe_write_csv" >>)
  /\ fh # "none" => BothSectionsPrinted
  /\ fh = "none" => file \in {AbsentFile, OldFile}

\* The step part of C8: only a step of the export, taken with both sections
\* printed, creates or changes the file or its handle.
C8_FileStep ==
  (file' # file \/ fh' # fh) =>
    /\ BothSectionsPrinted
    /\ SubSeq(calls, 1, 5) = << "get_session", "fetch_owned_amis", "fetch_instances",
                                "print_used", "print_unused" >>
    /\ pc \in {"maybe_write_csv", "csv_header", "csv_loop"}

\* C8: the helpers are called in the order fetch images, fetch instances,
\* print used, print unused, export; the file is opened only after both
\* sections are printed in full, so a run that ends before the export begins
\* neither creates nor modifies it.
C8_StrictOrder == []C8_OrderKept /\ [][C8_FileStep]_vars

\* C8 witness: the file left by an earlier run has just been truncated by
\* open(), after a used and an unused image were printed.
C8_Witness ==
  /\ pc = "csv_header" /\ fh = "open"
  /\ file = [exists |-> TRUE, rows |-> <<>>]
  /\ ConsoleUsedIds # <<>> /\ ConsoleUnusedIds # <<>>

\* The state part of C9.
C9_HandledOnce ==
  /\ \A step \in ProviderCalls : TimesCalled(step) <= 1
  /\ exit.raised = "ClientError" =>
       /\ exit.caught /\ exit.how = "sys.exit" /\ exit.code = 2
       /\ pc = "exited"
       /\ stderr = <<<<"AWS error:">>>>
       /\ Range(calls) \cap {"print_used", "print_unused", "maybe_write_csv"} = {}
       /\ \A k \in DOMAIN stdout :
            stdout[k][1] \notin {"1. USED AMIs (with instances):",
                                 "2. UNUSED AMIs (no instances):", "CSV written to:"}
       /\ fh = "none" /\ file \in {AbsentFile, OldFile}

\* C9: a provider error is not retried (each provider call is made at most
\* once), it is caught in main, reported on stderr and ends the process with
\* code 2, and no step runs after it.
C9_ProviderErrorFinal == []C9_HandledOnce /\ [][exit.raised # "ClientError"]_vars

\* C9 witness: describe_instances failed after describe_images had answered.
C9_Witness ==
  /\ exit.raised = "ClientError"
  /\ calls = <<"get_session", "fetch_owned_amis", "fetch_instances">>
  /\ amis # <<>>

\* C10: a failure to open or write the export is not swallowed: the process
\* ends with the traceback and a non-zero status, without the confirmation
\* line, with the handle released, after both sections were printed in full.
C10_ExportFailurePropagates ==
  exit.raised = "OSError" =>
    /\ ~exit.caught /\ exit.how = "traceback" /\ exit.code # 0
    /\ pc = "exited"
    /\ fh \in {"none", "closed"}
    /\ stdout = FullConsole
    /\ stderr = <<<<"Traceback", "OSError">>>>

\* C10 witness: a writerow failed after the header and one row were written.
C10_Witness ==
  /\ exit.raised = "OSError"
  /\ fh = "closed"
  /\ Len(file.rows) = 2
  /\ ConsoleUsedIds # <<>>

====
